---- MODULE Spec2Model ----
(***************************************************************************)
(* Model of src/truss_analysis.py: the planar truss solver TrussApp.       *)
(*                                                                         *)
(* State: the two input tables (tb_nodes, tb_bars), the two result tables  *)
(* (tb_res, tb_check), the canvas, and the dialogs/steps of the request    *)
(* that ran last.  Operations: reset_tables, plot_preview, calculate and   *)
(* the user's cell edits.                                                  *)
(*                                                                         *)
(* Numbers.  A Python float is modelled by a record [k, n, d]:             *)
(*   k = "fin"  : the rational n/d (d > 0, lowest terms); the float -0.0   *)
(*                is n = 0, d = -1                                         *)
(*   k = "huge" : a finite float of magnitude 1e200 with sign n, whose     *)
(*                square is out of the float range                         *)
(*   k = "inf"  : +/- infinity with sign n                                 *)
(*   k = "nan"  : not a number                                             *)
(* The int 0 that get_input_data gives a node it creates is k = "int".     *)
(* Text.  A Python str is modelled by a sequence of one-character strings. *)
(***************************************************************************)
EXTENDS Integers, Sequences, FiniteSets, TLC

\* ------------------------------------------------------------------------
\* Bounds of the model
\* ------------------------------------------------------------------------
MaxLoad == 1
MaxEdits == 1

\* ------------------------------------------------------------------------
\* Float arithmetic
\* ------------------------------------------------------------------------
AbsI(a) == IF a < 0 THEN -a ELSE a

RECURSIVE Gcd(_, _)
Gcd(a, b) == IF b = 0 THEN a ELSE Gcd(b, a % b)

Fin(n, d) ==
  LET g == Gcd(AbsI(n), AbsI(d))
      sg == IF d < 0 THEN -1 ELSE 1
  IN  [k |-> "fin", n |-> (sg * n) \div g, d |-> (sg * d) \div g]

Num(i) == [k |-> "fin", n |-> i, d |-> 1]
Zero == Num(0)
NegZero == [k |-> "fin", n |-> 0, d |-> -1]
Huge(sgn) == [k |-> "huge", n |-> sgn, d |-> 1]
Inf(sgn) == [k |-> "inf", n |-> sgn, d |-> 0]
NaN == [k |-> "nan", n |-> 0, d |-> 0]
\* the int 0 of the literal {'x':0,'y':0,'fx':0,'fy':0,...}
IntZero == [k |-> "int", n |-> 0, d |-> 1]

IsInt(a) == a.k = "int"
\* float(a): what an int becomes when it meets a float or enters an array
Float(a) == IF IsInt(a) THEN Num(a.n) ELSE a

IsFin(a) == a.k \in {"fin", "int"}
Sign(a) == IF a.n > 0 THEN 1 ELSE IF a.n < 0 THEN -1 ELSE 0

\* 0.0, -0.0 or the int 0
IsZero(a) == IsFin(a) /\ a.n = 0
\* the sign bit of a float
Negative(a) == a.n < 0 \/ a = NegZero
SignedZero(neg) == IF neg THEN NegZero ELSE Zero
\* a with the sign of a zero dropped
Unsigned(a) == IF a = NegZero THEN Zero ELSE a
\* a == b
FEq(a, b) == a.k # "nan" /\ Unsigned(Float(a)) = Unsigned(Float(b))

\* -a : the int 0 has no sign, -0 is 0
FNeg(a) ==
  IF IsInt(a) THEN [a EXCEPT !.n = -a.n]
  ELSE IF IsZero(a) THEN SignedZero(~Negative(a))
  ELSE [a EXCEPT !.n = -a.n]

\* a + b on floats; a sum of zeros is -0.0 only when both are
FloatAdd(a, b) ==
  IF IsZero(a) /\ IsZero(b) THEN SignedZero(Negative(a) /\ Negative(b))
  ELSE IF IsZero(a) THEN b
  ELSE IF IsZero(b) THEN a
  ELSE IF a.k = "nan" \/ b.k = "nan" THEN NaN
  ELSE IF a.k = "inf" THEN (IF b.k = "inf" /\ b.n # a.n THEN NaN ELSE a)
  ELSE IF b.k = "inf" THEN b
  ELSE IF a.k = "huge" THEN (IF b.k = "huge" /\ b.n # a.n THEN Zero ELSE a)
  ELSE IF b.k = "huge" THEN b
  ELSE Fin(a.n * b.d + b.n * a.d, a.d * b.d)

\* a + b : an int when both are ints, a float sum otherwise
FAdd(a, b) ==
  IF IsInt(a) /\ IsInt(b) THEN [a EXCEPT !.n = a.n + b.n]
  ELSE FloatAdd(Float(a), Float(b))

\* a - b : the int 0 minus the int 0 is the int 0; 0 - (-0.0) is 0.0 and
\* -0.0 - 0 is -0.0
FSub(a, b) ==
  IF IsInt(a) /\ IsInt(b) THEN [a EXCEPT !.n = a.n - b.n]
  ELSE FloatAdd(Float(a), FNeg(Float(b)))

\* a * b : an int when both are ints; on finite rationals and the non-finite
\* values, the product of two huge values overflows to inf and a zero
\* product has the sign of its factors (the int 0 has none)
FMul(a, b) ==
  IF IsInt(a) /\ IsInt(b) THEN [a EXCEPT !.n = a.n * b.n]
  ELSE IF a.k = "nan" \/ b.k = "nan" THEN NaN
  ELSE IF a.k = "inf" \/ b.k = "inf"
       THEN (IF Sign(a) * Sign(b) = 0 THEN NaN ELSE Inf(Sign(a) * Sign(b)))
  ELSE IF IsZero(a) \/ IsZero(b) THEN SignedZero(Negative(a) # Negative(b))
  ELSE IF a.k = "huge" /\ b.k = "huge" THEN Inf(Sign(a) * Sign(b))
  ELSE IF a.k = "huge" \/ b.k = "huge" THEN Huge(Sign(a) * Sign(b))
  ELSE Fin(a.n * b.n, a.d * b.d)

\* a / b for b # 0 (the callers divide by a length that passed L >= 1e-6);
\* the quotient is a float whatever a and b are
FDiv(a, b) ==
  IF a.k = "nan" \/ b.k = "nan" THEN NaN
  ELSE IF b.k = "inf"
       THEN (IF a.k = "inf" THEN NaN ELSE SignedZero(Negative(a) # Negative(b)))
  ELSE IF a.k = "inf" THEN Inf(Sign(a) * Sign(b))
  ELSE IF IsZero(a) THEN SignedZero(Negative(a) # Negative(b))
  ELSE IF b.k = "huge"
       THEN (IF a.k = "huge" THEN Num(Sign(a) * Sign(b))
             ELSE SignedZero(Negative(a) # Negative(b)))
  ELSE IF a.k = "huge" THEN Huge(Sign(a) * Sign(b))
  ELSE Fin(a.n * b.d, a.d * b.n)

\* a < b ; every comparison with nan is False
FLt(a, b) ==
  IF a.k = "nan" \/ b.k = "nan" THEN FALSE
  ELSE IF a.k = "inf" THEN a.n < 0 /\ ~(b.k = "inf" /\ b.n < 0)
  ELSE IF b.k = "inf" THEN b.n > 0
  ELSE IF a.k = "huge" THEN a.n < 0 /\ ~(b.k = "huge" /\ b.n < 0)
  ELSE IF b.k = "huge" THEN b.n > 0
  ELSE a.n * AbsI(b.d) < b.n * AbsI(a.d)

FAbs(a) == IF Negative(a) THEN FNeg(a) ELSE a

\* integer square root of a perfect square
ISqrt(m) == CHOOSE r \in 0..m : r * r = m

\* x ** 2 : Python raises OverflowError when a finite x squares out of range
PowOverflows(a) == a.k = "huge"
FSq(a) ==
  IF IsInt(a) THEN [a EXCEPT !.n = a.n * a.n]
  ELSE IF a.k = "nan" THEN NaN
  ELSE IF a.k = "inf" THEN Inf(1)
  ELSE Fin(a.n * a.n, a.d * a.d)

\* math.sqrt on the squares the geometry produces
FSqrt(a) ==
  IF IsFin(a) THEN Fin(ISqrt(a.n), ISqrt(a.d)) ELSE a

\* ------------------------------------------------------------------------
\* Text: str.strip, str.upper, the order sorted() uses
\* ------------------------------------------------------------------------
DigitChars == <<"0", "1", "2", "3", "4", "5", "6", "7", "8", "9">>
UpperChars ==
  <<"A", "B", "C", "D", "E", "F", "G", "H", "I", "J", "K", "L", "M",
    "N", "O", "P", "Q", "R", "S", "T", "U", "V", "W", "X", "Y", "Z">>
LowerChars ==
  <<"a", "b", "c", "d", "e", "f", "g", "h", "i", "j", "k", "l", "m",
    "n", "o", "p", "q", "r", "s", "t", "u", "v", "w", "x", "y", "z">>

\* the elements and the positions of a sequence of characters
Range(q) == {q[i] : i \in 1..Len(q)}
IndexIn(q, ch) == CHOOSE i \in 1..Len(q) : q[i] = ch

Digits == Range(DigitChars)
Uppers == Range(UpperChars)
Lowers == Range(LowerChars)
Chars == {" "} \cup Digits \cup Uppers \cup Lowers

\* code point of a character
Ord(ch) ==
  IF ch = " " THEN 32
  ELSE IF ch \in Digits THEN 47 + IndexIn(DigitChars, ch)
  ELSE IF ch \in Uppers THEN 64 + IndexIn(UpperChars, ch)
  ELSE 96 + IndexIn(LowerChars, ch)

UpperChar(ch) ==
  IF ch \in Lowers THEN UpperChars[IndexIn(LowerChars, ch)] ELSE ch

RECURSIVE upper(_)
upper(t) == IF t = << >> THEN << >> ELSE <<UpperChar(Head(t))>> \o upper(Tail(t))

RECURSIVE lstrip(_)
lstrip(t) == IF t # << >> /\ Head(t) = " " THEN lstrip(Tail(t)) ELSE t

RECURSIVE rstrip(_)
rstrip(t) ==
  IF t # << >> /\ t[Len(t)] = " " THEN rstrip(SubSeq(t, 1, Len(t) - 1)) ELSE t

strip(t) == rstrip(lstrip(t))

\* s < t on str: lexicographic by code point
RECURSIVE TextLt(_, _)
TextLt(s, t) ==
  IF t = << >> THEN FALSE
  ELSE IF s = << >> THEN TRUE
  ELSE IF Ord(Head(s)) # Ord(Head(t)) THEN Ord(Head(s)) < Ord(Head(t))
  ELSE TextLt(Tail(s), Tail(t))

\* sorted(keys)
RECURSIVE sorted(_)
sorted(S) ==
  IF S = {} THEN << >>
  ELSE LET m == CHOOSE a \in S : \A b \in S \ {a} : TextLt(a, b)
       IN  <<m>> \o sorted(S \ {m})

\* ------------------------------------------------------------------------
\* Input tables and get_input_data
\* ------------------------------------------------------------------------
NoSupport == "-"
Pinned == "Goi Co Dinh"
Roller == "Goi Di Dong"

NodeRow(id, x, y, fx, fy, s, ang) ==
  [id |-> id, x |-> x, y |-> y, fx |-> fx, fy |-> fy, s |-> s, s_angle |-> ang]

BarRow(id, u, v) == [id |-> id, u |-> u, v |-> v]

NodeOf(row) ==
  [x |-> row.x, y |-> row.y, fx |-> row.fx, fy |-> row.fy,
   s |-> row.s, s_angle |-> row.s_angle]

\* AutoNode created on a fixed support
AutoNodePinned ==
  [x |-> IntZero, y |-> IntZero, fx |-> IntZero, fy |-> IntZero,
   s |-> Pinned, s_angle |-> IntZero]

\* {'x':0,'y':0, 'fx':0,'fy':0,'s':'-', 's_angle': 0}: the zeros are ints
AutoNode ==
  [x |-> IntZero, y |-> IntZero, fx |-> IntZero, fy |-> IntZero,
   s |-> NoSupport, s_angle |-> IntZero]

\* nodes[key] = val on a dict
Put(nodes, key, val) ==
  [q \in (DOMAIN nodes) \cup {key} |-> IF q = key THEN val ELSE nodes[q]] @@ << >>

\* the loop over the rows of tb_nodes, from row r on
RECURSIVE ReadNodes(_, _, _)
ReadNodes(tn, r, nodes) ==
  IF r > Len(tn) THEN nodes
  ELSE LET nid == strip(tn[r].id)
       IN  IF nid = << >> THEN ReadNodes(tn, r + 1, nodes)
           ELSE ReadNodes(tn, r + 1, Put(nodes, nid, NodeOf(tn[r])))

\* the loop over the rows of tb_bars, from row r on
RECURSIVE ReadBars(_, _, _, _)
ReadBars(tb, r, nodes, bars) ==
  IF r > Len(tb) THEN [nodes |-> nodes, bars |-> bars]
  ELSE LET bid == tb[r].id
           u_name == upper(strip(tb[r].u))
           v_name == upper(strip(tb[r].v))
       IN  IF u_name = << >> \/ v_name = << >>
           THEN ReadBars(tb, r + 1, nodes, bars)
           ELSE LET n1 == IF u_name \in DOMAIN nodes THEN nodes
                          ELSE Put(nodes, u_name, AutoNode)
                    n2 == IF v_name \in DOMAIN n1 THEN n1
                          ELSE Put(n1, v_name, AutoNode)
                IN  ReadBars(tb, r + 1, n2,
                             Append(bars, [id |-> bid, u |-> u_name, v |-> v_name]))

\* keys with key put last unless it is there already: the place of a key in
\* a dict is the place of its first nodes[key] = val
Keyed(keys, key) ==
  IF \E i \in 1..Len(keys) : keys[i] = key THEN keys ELSE Append(keys, key)

\* the order in which the loop over the rows of tb_nodes puts the keys
RECURSIVE NodeKeys(_, _, _)
NodeKeys(tn, r, keys) ==
  IF r > Len(tn) THEN keys
  ELSE IF strip(tn[r].id) = << >> THEN NodeKeys(tn, r + 1, keys)
  ELSE NodeKeys(tn, r + 1, Keyed(keys, strip(tn[r].id)))

\* the order after the loop over the rows of tb_bars has added the ends
RECURSIVE BarKeys(_, _, _)
BarKeys(tb, r, keys) ==
  IF r > Len(tb) THEN keys
  ELSE IF upper(strip(tb[r].u)) = << >> \/ upper(strip(tb[r].v)) = << >>
  THEN BarKeys(tb, r + 1, keys)
  ELSE BarKeys(tb, r + 1,
               Keyed(Keyed(keys, upper(strip(tb[r].u))), upper(strip(tb[r].v))))

\* the return of get_input_data once both loops have run: (None, None) when
\* there is no node; order lists the keys of nodes as nodes.values() and
\* nodes.items() go through them
Returned(nb, order) ==
  IF DOMAIN nb.nodes = {}
  THEN [none |-> TRUE, nodes |-> << >>, bars |-> << >>, order |-> << >>]
  ELSE [none |-> FALSE, nodes |-> nb.nodes, bars |-> nb.bars, order |-> order]

\* get_input_data: none is TRUE for the (None, None) result
get_input_data(tn, tb) ==
  Returned(ReadBars(tb, 1, ReadNodes(tn, 1, << >>), << >>),
           BarKeys(tb, 1, NodeKeys(tn, 1, << >>)))

\* ------------------------------------------------------------------------
\* numpy: vectors and matrices are functions on 0..n-1
\* ------------------------------------------------------------------------
\* an array holds its entries, not the expression that computes them
Arr(f) == f @@ << >>

\* A[i, j] = v
SetA(A, i, j, v) == [A EXCEPT ![i] = [@ EXCEPT ![j] = v]]

\* sum of f[0..n-1]
RECURSIVE SumTo(_, _)
SumTo(f, n) == IF n = 0 THEN Zero ELSE FAdd(SumTo(f, n - 1), f[n - 1])

\* A.T for an m x n matrix
Transpose(A, m, n) ==
  Arr([j \in 0..(n - 1) |-> Arr([i \in 0..(m - 1) |-> A[i][j]])])

\* A @ v for an m x n matrix
MatVec(A, v, m, n) ==
  Arr([i \in 0..(m - 1) |->
         SumTo(Arr([j \in 0..(n - 1) |-> FMul(A[i][j], v[j])]), n)])

\* A @ B for an m x n and an n x p matrix
MatMul(A, B, m, n, p) ==
  Arr([i \in 0..(m - 1) |->
         Arr([j \in 0..(p - 1) |->
                SumTo(Arr([t \in 0..(n - 1) |-> FMul(A[i][t], B[t][j])]), n)])])

\* the one element of a set of one element
Only(S) == CHOOSE v \in S : TRUE

\* G after the elimination step that takes row r0 as the pivot row of col:
\* r0, scaled to prow, becomes row `row` and its multiples are taken off
\* the other rows
Eliminate(G, p, q, col, row, r0) ==
  Only({Arr([i \in 0..(p - 1) |->
               IF i = row THEN prow
               ELSE LET src == IF i = r0 THEN G[row] ELSE G[i]
                    IN  IF IsZero(src[col]) THEN src
                        ELSE Arr([j \in 0..q |-> FSub(src[j], FMul(src[col], prow[j]))])])
        : prow \in {Arr([j \in 0..q |-> FDiv(G[r0][j], G[r0][col])])}})

\* Gauss-Jordan elimination of the p x (q+1) augmented matrix G from column
\* col and row row on; piv lists the pivot column of each reduced row
RECURSIVE GaussJordan(_, _, _, _, _, _)
GaussJordan(G, p, q, col, row, piv) ==
  IF col = q \/ row = p THEN [G |-> G, piv |-> piv]
  ELSE LET cand == {r \in row..(p - 1) : ~IsZero(G[r][col])}
       IN  IF cand = {} THEN GaussJordan(G, p, q, col + 1, row, piv)
           ELSE Only({GaussJordan(G1, p, q, col + 1, row + 1, Append(piv, col))
                      : G1 \in {Eliminate(G, p, q, col, row,
                                          CHOOSE r \in cand : \A r2 \in cand : r <= r2)}})

\* one solution z of the consistent system M z = b (M is p x q): the
\* augmented matrix (M | b) is reduced to gj and z is read off it, the free
\* unknowns being 0
SolveConsistent(M, b, p, q) ==
  Only({Arr([j \in 0..(q - 1) |->
               IF \E t \in 1..Len(gj.piv) : gj.piv[t] = j
               THEN gj.G[(CHOOSE t \in 1..Len(gj.piv) : gj.piv[t] = j) - 1][q]
               ELSE Zero])
        : gj \in {Only({GaussJordan(G0, p, q, 0, 0, << >>)
                         : G0 \in {Arr([i \in 0..(p - 1) |->
                                          Arr([j \in 0..q |->
                                                 IF j = q THEN b[i] ELSE M[i][j]])])}})}})

\* a matrix with a nan or inf entry
HasNonFinite(A, m, n) == \E i \in 0..(m - 1) : \E j \in 0..(n - 1) : ~IsFin(A[i][j])

\* np.linalg.lstsq(A, F, rcond=None)[0] for an m x n matrix: the minimum-norm
\* least-squares solution X = At z with At = A.T, AtA = At A, M = AtA At and
\* M z = At F.  LAPACK does not converge on a matrix with nan entries and
\* numpy raises LinAlgError.
lstsq(A, F, m, n) ==
  IF HasNonFinite(A, m, n) THEN [raised |-> TRUE, X |-> << >>]
  ELSE Only({Only({Only({Only({[raised |-> FALSE, X |-> MatVec(At, z, n, m)]
                               : z \in {SolveConsistent(M, MatVec(At, F, n, m), n, m)}})
                         : M \in {MatMul(AtA, At, n, n, m)}})
                   : AtA \in {MatMul(At, A, n, m, n)}})
             : At \in {Transpose(A, m, n)}})

\* ------------------------------------------------------------------------
\* math: trigonometry on the angles of the model, number formatting
\* ------------------------------------------------------------------------
\* math.cos(math.radians(a)) and math.sin(math.radians(a)), a a multiple of 90,
\* to 15 decimals: the float results within 1e-15 of zero (cos of 90 degrees
\* is 6.1e-17) are 0 here and their sign is CosDegSign, SinDegSign
CosDeg(a) ==
  LET q == a.n % 360
  IN  CASE q = 0 -> Num(1) [] q = 90 -> Zero [] q = 180 -> Num(-1) [] q = 270 -> Zero

SinDeg(a) ==
  LET q == a.n % 360
  IN  CASE q = 0 -> Zero [] q = 90 -> Num(1) [] q = 180 -> Zero [] q = 270 -> Num(-1)

\* the sign of the float math.cos(math.radians(a)), a a multiple of 90 within
\* two turns: cos of 90 degrees is 6.1e-17, of 270 degrees -1.8e-16
CosDegSign(a) ==
  LET q == AbsI(a.n) % 360
  IN  CASE q = 0 -> 1 [] q = 90 -> 1 [] q = 180 -> -1 [] q = 270 -> -1

\* the sign of the float math.sin(math.radians(a)): sin of 0 is 0.0, of 180
\* degrees 1.2e-16, of 360 degrees -2.4e-16, and sin is odd
SinDegSign(a) ==
  LET q == AbsI(a.n) % 360
      pos == CASE q = 0 -> (IF a.n = 0 THEN 0 ELSE -1) [] q = 90 -> 1
               [] q = 180 -> 1 [] q = 270 -> -1
  IN  IF a.n < 0 THEN -pos ELSE pos

\* val * t for a cosine or sine t of sign sgn: where t is one of the floats
\* within 1e-15 of zero, an infinite val stays infinite, a huge one stays
\* huge, and a finite one gives a product below every displayed digit
TimesTrig(val, t, sgn) ==
  IF ~IsZero(t) \/ sgn = 0 THEN FMul(val, t)
  ELSE IF val.k = "nan" THEN NaN
  ELSE IF val.k = "inf" THEN Inf(Sign(val) * sgn)
  ELSE IF val.k = "huge" THEN Huge(Sign(val) * sgn)
  ELSE SignedZero(Negative(val) # (sgn < 0))

\* math.degrees(math.atan2(|dy|, |dx|)) for dx, dy > 0, to two decimals
AcuteDeg(ady, adx) ==
  LET r == FDiv(ady, adx)
  IN  CASE r = Fin(3, 4) -> Fin(3687, 100)
        [] r = Fin(4, 3) -> Fin(5313, 100)

\* the order of magnitude of a float that is not nan
Rank(a) == IF a.k = "fin" THEN 0 ELSE IF a.k = "huge" THEN 1 ELSE 2

\* math.degrees(math.atan2(dy, dx)) when dy or dx is huge or infinite: the
\* larger of the two decides, equal ones meet on a diagonal
Atan2DegFar(dy, dx) ==
  IF Rank(dy) > Rank(dx) THEN (IF dy.n > 0 THEN Num(90) ELSE Num(-90))
  ELSE IF Rank(dx) > Rank(dy)
       THEN (IF dx.n > 0 THEN SignedZero(Negative(dy))
             ELSE IF Negative(dy) THEN Num(-180) ELSE Num(180))
  ELSE IF dx.n > 0 THEN (IF dy.n > 0 THEN Num(45) ELSE Num(-45))
  ELSE (IF dy.n > 0 THEN Num(135) ELSE Num(-135))

\* math.degrees(math.atan2(dy, dx)); a zero dy gives a zero or 180 degrees
\* with the sign of dy, the sign bit of dx choosing between the two
Atan2DegOf(dy, dx) ==
  IF dy.k = "nan" \/ dx.k = "nan" THEN NaN
  ELSE IF ~IsFin(dy) \/ ~IsFin(dx) THEN Atan2DegFar(dy, dx)
  ELSE IF IsZero(dy)
       THEN (IF ~Negative(dx) THEN dy
             ELSE IF Negative(dy) THEN Num(-180) ELSE Num(180))
  ELSE IF IsZero(dx) THEN (IF dy.n > 0 THEN Num(90) ELSE Num(-90))
  ELSE IF dx.n > 0 /\ dy.n > 0 THEN AcuteDeg(dy, dx)
  ELSE IF dx.n > 0 THEN FNeg(AcuteDeg(FNeg(dy), dx))
  ELSE IF dy.n > 0 THEN FSub(Num(180), AcuteDeg(dy, FNeg(dx)))
  ELSE FSub(AcuteDeg(FNeg(dy), FNeg(dx)), Num(180))

\* math.atan2 takes its arguments as floats
Atan2Deg(dy, dx) == Atan2DegOf(Float(dy), Float(dx))

Pow10(p) == CASE p = 1 -> 10 [] p = 2 -> 100 [] p = 3 -> 1000

\* x * 2^k mod d, by halves of k
RECURSIVE Doubled(_, _, _)
Doubled(x, k, d) ==
  IF k = 0 THEN x
  ELSE IF k = 1 THEN (2 * x) % d
  ELSE Only({Doubled(y, k - (k \div 2), d) : y \in {Doubled(x, k \div 2, d)}})

\* floor(log2(m)) for m >= 1, and the least j with n * 2^j >= d
RECURSIVE Log2Floor(_)
Log2Floor(m) == IF m < 2 THEN 0 ELSE 1 + Log2Floor(m \div 2)

RECURSIVE Log2Below(_, _)
Log2Below(n, d) == IF n >= d THEN 0 ELSE 1 + Log2Below(2 * n, d)

\* floor(log2(n/d)) for n, d > 0
Exponent(n, d) == IF n >= d THEN Log2Floor(n \div d) ELSE -Log2Below(n, d)

\* what is left of n/d below the 53 bits of a double, as a numerator over d
Beyond53(n, d) == Doubled(n % d, 52 - Exponent(n, d), d)

\* where the double nearest to n/d lies (n, d > 0): 0 when n/d is a double,
\* -1 when the double is below n/d, 1 when it is above
DoubleSide(n, d) ==
  IF Beyond53(n, d) = 0 THEN 0 ELSE IF 2 * Beyond53(n, d) < d THEN -1 ELSE 1

\* a value q + 1/2 units is written as q + 1 units when its double lies
\* above it, or is it and q is odd
TieUp(n, d, q) == DoubleSide(n, d) = 1 \/ (DoubleSide(n, d) = 0 /\ q % 2 = 1)

\* the units of 10^-p written for n/d (n >= 0, d > 0): num is n * 10^p
Units(n, d, num) ==
  IF 2 * (num % d) > d \/ (2 * (num % d) = d /\ TieUp(n, d, num \div d))
  THEN (num \div d) + 1 ELSE num \div d

\* f"{v:.pf}": the number of units of 10^-p in the text, which is the
\* decimal nearest to the double of v (ties to even); "nan", "inf" and
\* <<"-", "inf">> for the texts nan, inf and -inf
Fmt(v, p) ==
  IF ~IsFin(v) THEN (IF v.n < 0 THEN <<"-", v.k>> ELSE v.k)
  ELSE IF v.n < 0 THEN -Units(-v.n, v.d, (-v.n) * Pow10(p))
  ELSE Units(v.n, AbsI(v.d), v.n * Pow10(p))

\* ------------------------------------------------------------------------
\* calculate: the equilibrium system
\* ------------------------------------------------------------------------
\* L < 1e-6
LenEpsDen == 1000000
LenEps == Fin(1, LenEpsDen)

\* map_idx = {nid: i for i, nid in enumerate(node_keys)}
map_idx_of(node_keys) ==
  [nid \in {node_keys[i] : i \in 1..Len(node_keys)} |->
     (CHOOSE i \in 1..Len(node_keys) : node_keys[i] = nid) - 1] @@ << >>

\* ReactionsOf with the roller reacting along its surface
ReactionsOfAlongSurface(nid, idx, s_type, s_angle) ==
  IF s_type = Pinned
  THEN << <<idx, "x", <<"Ax_", nid>>, Zero>>, <<idx, "y", <<"Ay_", nid>>, Num(90)>> >>
  ELSE IF s_type = Roller
  THEN << <<idx, "custom", <<"R_", nid>>, s_angle>> >>
  ELSE << >>

\* what one pass of the loop over node_keys appends to reaction_map
ReactionsOf(nid, idx, s_type, s_angle) ==
  IF s_type = Pinned
  THEN << <<idx, "x", <<"Ax_", nid>>, Zero>>, <<idx, "y", <<"Ay_", nid>>, Num(90)>> >>
  ELSE IF s_type = Roller
  THEN << <<idx, "custom", <<"R_", nid>>, FAdd(s_angle, Num(90))>> >>
  ELSE << >>

\* the loop over node_keys that builds reaction_map, from position p on
RECURSIVE BuildReactions(_, _, _, _)
BuildReactions(nodes, node_keys, p, reaction_map) ==
  IF p > Len(node_keys) THEN reaction_map
  ELSE LET nid == node_keys[p]
       IN  BuildReactions(nodes, node_keys, p + 1,
             reaction_map \o ReactionsOf(nid, p - 1, nodes[nid].s, nodes[nid].s_angle))

\* BuildF without the negation of the loads
BuildFUnnegated(nodes, map_idx, n_equations) ==
  Arr([r \in 0..(n_equations - 1) |->
         LET nid == CHOOSE q \in DOMAIN nodes : map_idx[q] = r \div 2
         IN  IF r % 2 = 0 THEN Float(nodes[nid].fx) ELSE Float(nodes[nid].fy)])

\* F_vec after the loop over nodes.items(): the float array takes -n['fx']
\* as a float, so the int 0 of a created node is stored as 0.0 and the 0.0
\* of a table row as -0.0
BuildF(nodes, map_idx, n_equations) ==
  Arr([r \in 0..(n_equations - 1) |->
         LET nid == CHOOSE q \in DOMAIN nodes : map_idx[q] = r \div 2
         IN  IF r % 2 = 0 THEN Float(FNeg(nodes[nid].fx))
             ELSE Float(FNeg(nodes[nid].fy))])

\* BarColumn with the signs of the two ends exchanged
BarColumnSwapped(A, j, idx_u, idx_v, c, s) ==
  LET A1 == SetA(SetA(A, 2 * idx_u, j, FNeg(c)), 2 * idx_u + 1, j, FNeg(s))
  IN  SetA(SetA(A1, 2 * idx_v, j, c), 2 * idx_v + 1, j, s)

\* the four entries a bar writes in its column j
BarColumn(A, j, idx_u, idx_v, c, s) ==
  LET A1 == SetA(SetA(A, 2 * idx_u, j, c), 2 * idx_u + 1, j, s)
  IN  SetA(SetA(A1, 2 * idx_v, j, FNeg(c)), 2 * idx_v + 1, j, FNeg(s))

\* angle_deg + 180 brought back into (-180, 180]
AngleAtEnd(a180) == IF FLt(Num(180), a180) THEN FSub(a180, Num(360)) ELSE a180

\* the two rows a bar appends to debug_info
BarDebug(b, c, s, angle_deg) ==
  << << <<"Thanh", b.id>>, b.u, Fmt(angle_deg, 1), <<Fmt(c, 2), Fmt(s, 2)>> >>,
     << <<"Thanh", b.id>>, b.v, Fmt(AngleAtEnd(FAdd(angle_deg, Num(180))), 1),
        <<Fmt(FNeg(c), 2), Fmt(FNeg(s), 2)>> >> >>

\* the loop over bars, from bar j (0-based) on: st is "ok" when every bar was
\* entered, "zero_length" when bar `bar` stopped the loop with the dialog,
\* "overflow" when dx**2 or dy**2 raised OverflowError
RECURSIVE AssembleBars(_, _, _, _, _, _)

\* the pass for bar b from the test of its length L on
AssembleBarOfLength(nodes, map_idx, bars, j, A, debug_info, b, dx, dy, L) ==
  IF FLt(L, LenEps)
  THEN [st |-> "zero_length", bar |-> b.id, A |-> A, debug_info |-> debug_info]
  ELSE AssembleBars(nodes, map_idx, bars, j + 1,
                    BarColumn(A, j, map_idx[b.u], map_idx[b.v], FDiv(dx, L), FDiv(dy, L)),
                    debug_info \o BarDebug(b, FDiv(dx, L), FDiv(dy, L), Atan2Deg(dy, dx)))

\* math.sqrt(dx**2 + dy**2) where neither square is out of range: along an
\* axis the root of the one square is the magnitude of the component
Length(dx, dy) ==
  IF IsZero(dy) THEN Float(FAbs(dx))
  ELSE IF IsZero(dx) THEN Float(FAbs(dy))
  ELSE FSqrt(FAdd(FSq(dx), FSq(dy)))

\* the pass for bar b from L = math.sqrt(dx**2 + dy**2) on
AssembleBar(nodes, map_idx, bars, j, A, debug_info, b, dx, dy) ==
  IF PowOverflows(dx) \/ PowOverflows(dy)
  THEN [st |-> "overflow", bar |-> b.id, A |-> A, debug_info |-> debug_info]
  ELSE AssembleBarOfLength(nodes, map_idx, bars, j, A, debug_info, b, dx, dy,
                           Length(dx, dy))

AssembleBars(nodes, map_idx, bars, j, A, debug_info) ==
  IF j >= Len(bars) THEN [st |-> "ok", bar |-> << >>, A |-> A, debug_info |-> debug_info]
  ELSE LET b == bars[j + 1]
           p1 == nodes[b.u]
           p2 == nodes[b.v]
       IN  AssembleBar(nodes, map_idx, bars, j, A, debug_info, b,
                       FSub(p2.x, p1.x), FSub(p2.y, p1.y))

\* the loop over reaction_map, from reaction k (0-based) on
RECURSIVE AssembleReactions(_, _, _, _, _, _)
AssembleReactions(reaction_map, node_keys, n_bars, k, A, debug_info) ==
  IF k >= Len(reaction_map) THEN [A |-> A, debug_info |-> debug_info]
  ELSE LET node_idx == reaction_map[k + 1][1]
           label == reaction_map[k + 1][3]
           r_angle == reaction_map[k + 1][4]
           col_idx == n_bars + k
           cos_r == CosDeg(r_angle)
           sin_r == SinDeg(r_angle)
       IN  AssembleReactions(reaction_map, node_keys, n_bars, k + 1,
             SetA(SetA(A, 2 * node_idx, col_idx, cos_r), 2 * node_idx + 1, col_idx, sin_r),
             Append(debug_info,
                    << <<"Goi", label>>, node_keys[node_idx + 1], Fmt(r_angle, 1),
                       <<Fmt(cos_r, 2), Fmt(sin_r, 2)>> >>))

\* the system when the loop over bars has ended with ab: the loop over
\* reaction_map runs only if every bar was entered
Assembled(node_keys, map_idx, reaction_map, n_bars, n_equations, F_vec, ab) ==
  [st |-> ab.st, bar |-> ab.bar, node_keys |-> node_keys, map_idx |-> map_idx,
   reaction_map |-> reaction_map, n_bars |-> n_bars,
   n_unknowns |-> n_bars + Len(reaction_map), n_equations |-> n_equations,
   F_vec |-> F_vec]
  @@ (IF ab.st = "ok"
      THEN AssembleReactions(reaction_map, node_keys, n_bars, 0, ab.A, ab.debug_info)
      ELSE [A |-> ab.A, debug_info |-> ab.debug_info])

\* calculate from n_reactions = len(reaction_map) to the line before the try
AssembleSystem(nodes, bars, node_keys, map_idx, reaction_map) ==
  LET n_nodes == Cardinality(DOMAIN nodes)
      n_bars == Len(bars)
      n_reactions == Len(reaction_map)
      n_unknowns == n_bars + n_reactions
      n_equations == 2 * n_nodes
  IN  Assembled(node_keys, map_idx, reaction_map, n_bars, n_equations,
                BuildF(nodes, map_idx, n_equations),
                AssembleBars(nodes, map_idx, bars, 0,
                             Arr([i \in 0..(n_equations - 1) |-> Arr([j \in 0..(n_unknowns - 1) |-> Zero])]), << >>))

\* calculate from map_idx to the line before the try
AssembleKeys(nodes, bars, node_keys) ==
  AssembleSystem(nodes, bars, node_keys, map_idx_of(node_keys),
                 BuildReactions(nodes, node_keys, 1, << >>))

\* calculate from its first line to the line before the try: the system
\* A, F_vec, reaction_map, debug_info of the structure (nodes, bars)
Assemble(nodes, bars) == AssembleKeys(nodes, bars, sorted(DOMAIN nodes))

\* ------------------------------------------------------------------------
\* The views: display_results, display_check_matrix, plot_structure
\* ------------------------------------------------------------------------
\* val > 1e-4 / val < -1e-4
ForceEpsDen == 10000
ForceEps == Fin(1, ForceEpsDen)

ForceState(val) ==
  IF FLt(ForceEps, val) THEN "KEO (+)"
  ELSE IF FLt(val, FNeg(ForceEps)) THEN "NEN (-)"
  ELSE "Khong Luc"

\* display_results with the bar labels taken from the end of the bar list
display_resultsReversed(S, bars, R, r_map) ==
  [i \in 1..Len(S) |->
     << <<"Thanh", bars[Len(S) + 1 - i].id>>, Fmt(FAbs(S[i]), 3),
        <<"st", ForceState(S[i])>> >>]
  \o
  [i \in 1..Len(R) |->
     LET label == r_map[i][3]
         r_angle == r_map[i][4]
         rx == TimesTrig(R[i], CosDeg(r_angle), CosDegSign(r_angle))
         ry == TimesTrig(R[i], SinDeg(r_angle), SinDegSign(r_angle))
     IN  << <<"P.Luc", label, "(Tong)">>, Fmt(FAbs(R[i]), 3),
            <<"Rx", Fmt(rx, 1), "Ry", Fmt(ry, 1)>> >>]

\* the rows display_results puts in tb_res
display_results(S, bars, R, r_map) ==
  [i \in 1..Len(S) |->
     << <<"Thanh", bars[i].id>>, Fmt(FAbs(S[i]), 3), <<"st", ForceState(S[i])>> >>]
  \o
  [i \in 1..Len(R) |->
     LET label == r_map[i][3]
         r_angle == r_map[i][4]
         rx == TimesTrig(R[i], CosDeg(r_angle), CosDegSign(r_angle))
         ry == TimesTrig(R[i], SinDeg(r_angle), SinDegSign(r_angle))
     IN  << <<"P.Luc", label, "(Tong)">>, Fmt(FAbs(R[i]), 3),
            <<"Rx", Fmt(rx, 1), "Ry", Fmt(ry, 1)>> >>]

\* the rows display_check_matrix puts in tb_check
display_check_matrix(data) == data

\* the label plot_structure writes at bar i (1-based)
BarLabel(b, i, forces) ==
  IF forces.given /\ i <= Len(forces.S)
  THEN (IF ForceState(forces.S[i]) = "Khong Luc" THEN <<"0">>
        ELSE <<"val", Fmt(forces.S[i], 2)>>)
  ELSE <<"id", b.id>>

NoForces == [given |-> FALSE, S |-> << >>, R |-> << >>]

\* max(vs) and min(vs) from element i on, m being the result so far: a
\* later element replaces m only if it compares greater (smaller), and a
\* comparison with nan is False
RECURSIVE MaxFrom(_, _, _)
MaxFrom(vs, i, m) ==
  IF i > Len(vs) THEN m ELSE MaxFrom(vs, i + 1, IF FLt(m, vs[i]) THEN vs[i] ELSE m)

RECURSIVE MinFrom(_, _, _)
MinFrom(vs, i, m) ==
  IF i > Len(vs) THEN m ELSE MinFrom(vs, i + 1, IF FLt(vs[i], m) THEN vs[i] ELSE m)

Max(vs) == MaxFrom(vs, 2, vs[1])
Min(vs) == MinFrom(vs, 2, vs[1])

\* xs and ys of plot_structure
Xs(gd) == [i \in 1..Len(gd.order) |-> gd.nodes[gd.order[i]].x]

\* margin = max(1.5, (max(xs)-min(xs))*0.1)
MarginOf(spread) == IF FLt(Fin(3, 2), spread) THEN spread ELSE Fin(3, 2)
Margin(xs) == MarginOf(FMul(FSub(Max(xs), Min(xs)), Fin(1, 10)))

\* the four limits handed to set_xlim and set_ylim
Limits(xs, ys, margin) ==
  {FSub(Min(xs), margin), FAdd(Max(xs), margin),
   FSub(Min(ys), margin), FAdd(Max(ys), margin)}

\* set_xlim / set_ylim raise ValueError on a nan or inf limit
PlotRaises(gd) ==
  \E lim \in Limits(Xs(gd), [i \in 1..Len(gd.order) |-> gd.nodes[gd.order[i]].y],
                    Margin(Xs(gd))) :
    lim.k \in {"inf", "nan"}

\* the places in nodes.items() of the nodes whose load squares out of range:
\* n['fx']**2 + n['fy']**2 raises OverflowError there
LoadOverflows(gd) ==
  {i \in 1..Len(gd.order) :
     PowOverflows(gd.nodes[gd.order[i]].fx) \/ PowOverflows(gd.nodes[gd.order[i]].fy)}

\* the axes once the bars and the first n nodes are on them
Drawn(gd, forces, n) ==
  [state |-> IF forces.given THEN "forces" ELSE "structure",
   nodes |-> {gd.order[i] : i \in 1..n},
   bars |-> [i \in 1..Len(gd.bars) |-> BarLabel(gd.bars[i], i, forces)]]

\* plot_structure after nodes, bars = self.get_input_data(): error names
\* the exception that left it before canvas.draw()
Plotted(gd, forces) ==
  IF gd.none THEN [raised |-> FALSE, error |-> "none", canvas |-> [state |-> "blank", nodes |-> {}, bars |-> << >>]]
  ELSE IF PlotRaises(gd)
  THEN [raised |-> TRUE, error |-> "ValueError",
        canvas |-> [state |-> "cleared", nodes |-> {}, bars |-> << >>]]
  ELSE IF LoadOverflows(gd) # {}
  THEN [raised |-> TRUE, error |-> "OverflowError",
        canvas |-> Drawn(gd, forces,
                         CHOOSE i \in LoadOverflows(gd) : \A j \in LoadOverflows(gd) : i <= j)]
  ELSE [raised |-> FALSE, error |-> "none",
        canvas |-> Drawn(gd, forces, Len(gd.order))]

\* plot_structure(S_forces, R_forces) on the tables tn, tb: the canvas it
\* leaves and whether it raised
plot_structure(tn, tb, forces) == Plotted(get_input_data(tn, tb), forces)

\* X[a:b] as a list
Slice(X, a, b) == [i \in 1..(b - a) |-> X[a + i - 1]]

\* ------------------------------------------------------------------------
\* State
\* ------------------------------------------------------------------------
VARIABLES
  tb_nodes,   \* rows of the node table
  tb_bars,    \* rows of the bar table
  tb_res,     \* rows of the results table
  tb_check,   \* rows of the verification table
  canvas,     \* what the canvas axes hold
  dialog,     \* the QMessageBox the last request showed
  last,       \* the last request: handler, the tables it read, its steps
  alive,      \* FALSE once an exception left a slot uncaught
  edits       \* number of table resets and changes of a bar cell so far

vars == <<tb_nodes, tb_bars, tb_res, tb_check, canvas, dialog, last, alive, edits>>

NoDialog == [kind |-> "none", title |-> "", text |-> << >>]
Critical(title, text) == [kind |-> "critical", title |-> title, text |-> text]
Information(title, text) == [kind |-> "information", title |-> title, text |-> text]
Warning(title, text) == [kind |-> "warning", title |-> title, text |-> text]

Request(op, tn, tb, steps) == [op |-> op, tn |-> tn, tb |-> tb, steps |-> steps]

\* ------------------------------------------------------------------------
\* calculate
\* ------------------------------------------------------------------------
\* the views as calculate found them, nothing shown
Kept(res, chk, cv) ==
  [tb_res |-> res, tb_check |-> chk, canvas |-> cv,
   dialog |-> NoDialog, alive |-> TRUE, steps |-> <<"get_input_data">>]

UnsolvableDialog == Critical("Loi Toan Hoc", <<"Khong giai duoc he phuong trinh">>)

\* the end of the try block: plot_structure returned ps after both tables
\* were filled
calculate_plotted(ps, rows, check_rows) ==
  [tb_res |-> rows, tb_check |-> check_rows, canvas |-> ps.canvas,
   dialog |-> IF ps.raised THEN UnsolvableDialog
              ELSE Information("Thanh Cong", <<"Da tinh toan xong!">>),
   alive |-> TRUE,
   steps |-> <<"get_input_data", "lstsq", "display_results", "display_check_matrix",
               "plot_structure", IF ps.raised THEN "critical" ELSE "information">>]

\* the try block after lstsq returned X = S_results ++ R_results
calculate_display(S_results, R_results, sys, gd, tn, tb) ==
  calculate_plotted(
    plot_structure(tn, tb, [given |-> TRUE, S |-> S_results, R |-> R_results]),
    display_results(S_results, gd.bars, R_results, sys.reaction_map),
    display_check_matrix(sys.debug_info))

\* the try block from the return of lstsq on
calculate_solved(ls, sys, gd, keep, tn, tb) ==
  IF ls.raised
  THEN [keep EXCEPT !.dialog = UnsolvableDialog,
                    !.steps = <<"get_input_data", "lstsq", "critical">>]
  ELSE calculate_display(Slice(ls.X, 0, sys.n_bars),
                         Slice(ls.X, sys.n_bars, sys.n_unknowns), sys, gd, tn, tb)

\* calculate once the loops over bars and reactions have left sys
calculate_assembled(sys, gd, keep, tn, tb) ==
  IF sys.st = "overflow"
  THEN [keep EXCEPT !.alive = FALSE,
                    !.steps = <<"get_input_data", "OverflowError">>]
  ELSE IF sys.st = "zero_length"
  THEN [keep EXCEPT !.dialog = Critical("Loi", <<"Thanh", sys.bar, "co chieu dai ~ 0!">>),
                    !.steps = <<"get_input_data", "critical">>]
  ELSE calculate_solved(lstsq(sys.A, sys.F_vec, sys.n_equations, sys.n_unknowns),
                        sys, gd, keep, tn, tb)

\* calculate after nodes, bars = self.get_input_data()
calculate_read(gd, keep, tn, tb) ==
  IF gd.none \/ gd.bars = << >> THEN keep
  ELSE calculate_assembled(Assemble(gd.nodes, gd.bars), gd, keep, tn, tb)

\* what one call of calculate does to the views, on the tables tn, tb
calculate(tn, tb, res, chk, cv) ==
  calculate_read(get_input_data(tn, tb), Kept(res, chk, cv), tn, tb)

\* the button TINH TOAN
Calculate ==
  /\ alive
  /\ \E out \in {calculate(tb_nodes, tb_bars, tb_res, tb_check, canvas)} :
       /\ tb_res' = out.tb_res
       /\ tb_check' = out.tb_check
       /\ canvas' = out.canvas
       /\ dialog' = out.dialog
       /\ alive' = out.alive
       /\ last' = Request("calculate", tb_nodes, tb_bars, out.steps)
  /\ UNCHANGED <<tb_nodes, tb_bars, edits>>

\* ------------------------------------------------------------------------
\* plot_preview
\* ------------------------------------------------------------------------
\* the button CAP NHAT HINH and the timer: plot_structure(None, None); its
\* ValueError or OverflowError is caught by nobody
PlotPreview ==
  /\ alive
  /\ \E ps \in {plot_structure(tb_nodes, tb_bars, NoForces)} :
       /\ canvas' = ps.canvas
       /\ alive' = ~ps.raised
       /\ last' = Request("plot_preview", tb_nodes, tb_bars,
                          IF ps.raised THEN <<"get_input_data", ps.error>>
                          ELSE <<"get_input_data", "draw">>)
  /\ dialog' = NoDialog
  /\ UNCHANGED <<tb_nodes, tb_bars, tb_res, tb_check, edits>>

\* ------------------------------------------------------------------------
\* reset_tables
\* ------------------------------------------------------------------------
\* the value of a text of decimal digits
RECURSIVE DigitsValue(_)
DigitsValue(t) ==
  IF t = << >> THEN 0
  ELSE 10 * DigitsValue(SubSeq(t, 1, Len(t) - 1)) + (Ord(t[Len(t)]) - 48)

\* int(text) on the texts of the model: blanks around the digits are
\* ignored, a text with anything but digits raises ValueError
ParseInt(text) ==
  IF strip(text) # << >> /\ \A i \in 1..Len(strip(text)) : strip(text)[i] \in Digits
  THEN [ok |-> TRUE, val |-> DigitsValue(strip(text))]
  ELSE [ok |-> FALSE, val |-> 0]

\* chr(c)
Chr(c) == CHOOSE ch \in Chars : Ord(ch) = c

\* str(i) for i >= 0
RECURSIVE Str(_)
Str(i) == IF i < 10 THEN <<Chr(48 + i)>> ELSE Str(i \div 10) \o <<Chr(48 + (i % 10))>>

DefaultNodes == <<"5">>
DefaultBars == <<"7">>

\* text.strip() or default
StripOr(text, default) == IF strip(text) = << >> THEN default ELSE strip(text)

\* chr(65 + i) if i < 26 else f"N{i+1}"
node_name(i) == IF i < 26 THEN <<Chr(65 + i)>> ELSE <<"N">> \o Str(i + 1)

\* the tables setRowCount and the two loops leave
FreshNodes(n_nodes) ==
  [i \in 1..n_nodes |-> NodeRow(node_name(i - 1), Zero, Zero, Zero, Zero, NoSupport, Zero)]
FreshBars(n_bars) == [i \in 1..n_bars |-> BarRow(Str(i), << >>, << >>)]

\* the button Tao Bang Moi with the texts of inp_nodes and inp_bars
ResetTables(inp_nodes, inp_bars) ==
  /\ alive
  /\ edits < MaxEdits
  /\ edits' = edits + 1
  /\ \E n_nodes \in {ParseInt(StripOr(inp_nodes, DefaultNodes))},
        n_bars \in {ParseInt(StripOr(inp_bars, DefaultBars))} :
       IF ~n_nodes.ok \/ ~n_bars.ok
       THEN /\ dialog' = Warning("Loi", <<"So luong phai la so nguyen!">>)
            /\ last' = Request("reset_tables", tb_nodes, tb_bars, <<"ValueError", "warning">>)
            /\ UNCHANGED <<tb_nodes, tb_bars, canvas, alive>>
       ELSE \E tn \in {FreshNodes(n_nodes.val)}, tb \in {FreshBars(n_bars.val)} :
            \E ps \in {plot_structure(tn, tb, NoForces)} :
              /\ tb_nodes' = tn
              /\ tb_bars' = tb
              /\ canvas' = ps.canvas
              /\ dialog' = IF ps.error = "ValueError"
                           THEN Warning("Loi", <<"So luong phai la so nguyen!">>)
                           ELSE NoDialog
              /\ last' = Request("reset_tables", tn, tb,
                                 IF ps.error = "ValueError"
                                 THEN <<"plot_preview", "ValueError", "warning">>
                                 ELSE IF ps.raised THEN <<"plot_preview", ps.error>>
                                 ELSE <<"plot_preview", "draw">>)
              /\ alive' = (ps.error # "OverflowError")
  /\ UNCHANGED <<tb_res, tb_check>>

\* ------------------------------------------------------------------------
\* Cell edits
\* ------------------------------------------------------------------------
\* the user changes column 1 (start) or 2 (end) of row r of tb_bars:
\* UpperCaseDelegate.setModelData stores the text upper-cased, and
\* itemChanged calls schedule_update, which restarts the timer whose timeout
\* is plot_preview; no dialog is open while the user is in a cell
EditBarCell(r, col, text) ==
  /\ alive
  /\ edits < MaxEdits
  /\ r \in 1..Len(tb_bars)
  /\ upper(text) # (IF col = 1 THEN tb_bars[r].u ELSE tb_bars[r].v)
  /\ tb_bars' = IF col = 1 THEN [tb_bars EXCEPT ![r].u = upper(text)]
                ELSE [tb_bars EXCEPT ![r].v = upper(text)]
  /\ edits' = edits + 1
  /\ dialog' = NoDialog
  /\ last' = Request("schedule_update", << >>, << >>, <<"timer.start">>)
  /\ UNCHANGED <<tb_nodes, tb_res, tb_check, canvas, alive>>

\* ------------------------------------------------------------------------
\* The tables the user types in
\* ------------------------------------------------------------------------
Loads == {Num(i) : i \in (-1)..MaxLoad}

\* support kind and surface angle of a node row
SupportChoices == {<<NoSupport, Zero>>, <<Pinned, Zero>>, <<Roller, Zero>>, <<Roller, Num(90)>>}

\* two nodes on a horizontal line, 4 apart, with one bar between them and
\* the load on B: B right or left of A (g), the bar from A or from B (o)
TwoNodeTables ==
  {[tn |-> IF g = 1
           THEN <<NodeRow(<<"A">>, Zero, Zero, Zero, Zero, sa[1], sa[2]),
                  NodeRow(<<"B">>, Num(4), Zero, fx, Zero, sb[1], sb[2])>>
           ELSE <<NodeRow(<<"B">>, Zero, Zero, fx, Zero, sb[1], sb[2]),
                  NodeRow(<<"A">>, Num(4), Zero, Zero, Zero, sa[1], sa[2])>>,
    tb |-> IF o = 1 THEN <<BarRow(<<"1">>, <<"A">>, <<"B">>)>>
           ELSE <<BarRow(<<"1">>, <<"B">>, <<"A">>)>>]
   : sa \in SupportChoices, sb \in SupportChoices, fx \in Loads, g \in {1, 2}, o \in {1, 2}}

\* the right triangle A(0,0), B(4,0), C(0,3) with the load on C; the rows
\* are not in key order
TriangleTables ==
  {[tn |-> <<NodeRow(<<"C">>, Zero, Num(3), fx, fy, NoSupport, Zero),
             NodeRow(<<"A">>, Zero, Zero, Zero, Zero, sa[1], sa[2]),
             NodeRow(<<"B">>, Num(4), Zero, Zero, Zero, sb[1], sb[2])>>,
    tb |-> <<BarRow(<<"1">>, <<"A">>, <<"B">>), BarRow(<<"2">>, <<"C">>, <<"A">>),
             BarRow(<<"3">>, <<"B">>, <<"C">>)>>]
   : sa \in SupportChoices, sb \in SupportChoices, fx \in Loads, fy \in {Zero, Num(-1)}}

\* node ids and bar ends in several spellings, bar rows with blank cells
KeyTables ==
  {[tn |-> <<NodeRow(id, Zero, Num(3), Zero, Zero, Pinned, Zero),
             NodeRow(<<"B">>, Num(4), Zero, Num(1), Zero, Roller, Zero)>>,
    tb |-> <<BarRow(bid, u, v), BarRow(<<"2">>, <<"B">>, <<"D">>)>>]
   : id \in {<<"A">>, <<"a">>, <<" ", "a", " ">>, << >>},
     bid \in {<<"1">>, << >>},
     u \in {<<"A">>, <<" ", "A", " ">>, <<"B">>, <<"C">>, << >>},
     v \in {<<"B">>, <<"C">>, << >>}}

\* coincident nodes, huge and infinite coordinates
Places == {<<Zero, Zero>>, <<Num(4), Zero>>, <<Zero, Num(3)>>, <<Huge(1), Zero>>, <<Inf(1), Zero>>}

PlaceTables ==
  {[tn |-> <<NodeRow(<<"A">>, Zero, Zero, Zero, Zero, Pinned, Zero),
             NodeRow(<<"B">>, pb[1], pb[2], Num(1), Zero, Roller, Zero),
             NodeRow(<<"C">>, pc[1], pc[2], Zero, Zero, NoSupport, Zero)>>,
    tb |-> bl]
   : pb \in Places, pc \in Places,
     bl \in
     {<<BarRow(<<"1">>, <<"A">>, <<"B">>)>>,
      <<BarRow(<<"1">>, <<"A">>, <<"B">>), BarRow(<<"2">>, <<"A">>, <<"C">>)>>,
      <<BarRow(<<"1">>, <<"A">>, <<"C">>), BarRow(<<"2">>, <<"B">>, <<"A">>)>>,
      <<BarRow(<<"1">>, <<"A">>, <<"A">>), BarRow(<<"2">>, <<"A">>, <<"B">>)>>,
      <<BarRow(<<"1">>, <<"B">>, <<"C">>)>>}}

\* nothing typed in
EmptyTables ==
  {[tn |-> tn, tb |-> tb]
   : tn \in {<< >>, <<NodeRow(<< >>, Zero, Zero, Zero, Zero, NoSupport, Zero)>>},
     tb \in {<< >>, <<BarRow(<<"1">>, << >>, << >>)>>}}

\* a bar that runs to the left of A, the y of its far end typed as 0 or as
\* -0.0; and a node with a nan coordinate in the first or the second row
LeftTables ==
  {[tn |-> <<NodeRow(<<"A">>, Zero, Zero, Zero, Zero, Pinned, Zero),
             NodeRow(<<"B">>, Num(-4), y, Num(1), Zero, Roller, Zero)>>,
    tb |-> <<BarRow(<<"1">>, uv[1], uv[2])>>]
   : y \in {Zero, NegZero}, uv \in {<< <<"A">>, <<"B">> >>, << <<"B">>, <<"A">> >>}}

NanTables ==
  {[tn |-> IF g = 1
           THEN <<NodeRow(<<"A">>, Zero, Zero, Zero, Zero, Pinned, Zero),
                  NodeRow(<<"B">>, NaN, Zero, Num(1), Zero, Roller, Zero)>>
           ELSE <<NodeRow(<<"B">>, NaN, Zero, Num(1), Zero, Roller, Zero),
                  NodeRow(<<"A">>, Zero, Zero, Zero, Zero, Pinned, Zero)>>,
    tb |-> <<BarRow(<<"1">>, <<"A">>, <<"B">>)>>]
   : g \in {1, 2}}

\* B on the x axis closer to A than 1e-6, and exactly 1e-6 from it
ShortTables ==
  {[tn |-> <<NodeRow(<<"A">>, Zero, Zero, Zero, Zero, Pinned, Zero),
             NodeRow(<<"B">>, Fin(1, den), Zero, Num(1), Zero, Roller, Zero)>>,
    tb |-> <<BarRow(<<"1">>, <<"A">>, <<"B">>)>>]
   : den \in {LenEpsDen, 10 * LenEpsDen}}

InitTables ==
  TwoNodeTables \cup TriangleTables \cup KeyTables \cup PlaceTables \cup EmptyTables
  \cup LeftTables \cup NanTables \cup ShortTables

\* the tables of reset_tables once the user has typed t into them: the first rows get the
\* rows of t, the node rows left over get a blank id, the bar rows left over
\* stay as they are; the ends of the bars are stored as
\* UpperCaseDelegate.setModelData writes them
FilledNodes(tn, t) ==
  [i \in 1..Len(tn) |-> IF i <= Len(t.tn) THEN t.tn[i] ELSE [tn[i] EXCEPT !.id = << >>]]

FilledBars(tb, t) ==
  [i \in 1..Len(tb) |->
     IF i <= Len(t.tb) THEN BarRow(t.tb[i].id, upper(t.tb[i].u), upper(t.tb[i].v))
     ELSE tb[i]]

\* ------------------------------------------------------------------------
\* Typing
\* ------------------------------------------------------------------------
\* the cells of tables of n_nodes and n_bars rows in the order the user goes
\* through them: the rows of tb_nodes from left to right, then those of
\* tb_bars
Cells(n_nodes, n_bars) ==
  [p \in 1..(7 * n_nodes) |->
     <<"tn", ((p - 1) \div 7) + 1,
       <<"id", "x", "y", "fx", "fy", "s", "s_angle">>[((p - 1) % 7) + 1]>>]
  \o [p \in 1..(3 * n_bars) |->
        <<"tb", ((p - 1) \div 3) + 1, <<"id", "u", "v">>[((p - 1) % 3) + 1]>>]

\* the cell edits that lead from the tables T to the tables G through the
\* cells cs, from the i-th on: each edit changes one cell to what G has
RECURSIVE EditsFrom(_, _, _, _)
EditsFrom(T, G, cs, i) ==
  IF i > Len(cs) THEN {}
  ELSE Only({{<<T, T2>>} \cup EditsFrom(T2, G, cs, i + 1)
             : T2 \in {[T EXCEPT ![cs[i][1]][cs[i][2]][cs[i][3]] =
                                    G[cs[i][1]][cs[i][2]][cs[i][3]]]}})

\* every cell edit on the way from the tables F that reset_tables makes with
\* n_nodes and n_bars rows to the tables G the user has in mind, one of
\* tables: the cells that differ are typed in the order of the cells
EditsTo(tables, n_nodes, n_bars) ==
  UNION {EditsFrom(F, G, SelectSeq(Cells(n_nodes, n_bars),
                                   LAMBDA c : F[c[1]][c[2]][c[3]] # G[c[1]][c[2]][c[3]]), 1)
         : F \in {[tn |-> FreshNodes(n_nodes), tb |-> FreshBars(n_bars)]},
           G \in {[tn |-> FilledNodes(FreshNodes(n_nodes), t),
                    tb |-> FilledBars(FreshBars(n_bars), t)]
                   : t \in {t2 \in tables : Len(t2.tn) <= n_nodes /\ Len(t2.tb) <= n_bars}}}

\* for each table that some edit starts from, the tables one edit later
Typing(eds) ==
  Arr([T \in {e[1] : e \in eds} |-> {e[2] : e \in {e2 \in eds : e2[1] = T}}])

\* the user types the next cell on the way to one of the tables of typing,
\* whatever the views show; itemChanged and currentTextChanged call
\* schedule_update, which restarts the timer whose timeout is plot_preview
TypeCell(typing) ==
  /\ alive
  /\ [tn |-> tb_nodes, tb |-> tb_bars] \in DOMAIN typing
  /\ \E T \in typing[[tn |-> tb_nodes, tb |-> tb_bars]] :
       /\ tb_nodes' = T.tn
       /\ tb_bars' = T.tb
  /\ dialog' = NoDialog
  /\ last' = Request("schedule_update", << >>, << >>, <<"timer.start">>)
  /\ UNCHANGED <<tb_res, tb_check, canvas, alive, edits>>

\* ------------------------------------------------------------------------
\* Specification
\* ------------------------------------------------------------------------
CountTexts == {<< >>, <<"0">>, <<"0", "2">>, <<"x">>}

\* the tables __init__ leaves: reset_tables with both counts blank
ConstructedNodes == FreshNodes(ParseInt(DefaultNodes).val)
ConstructedBars == FreshBars(ParseInt(DefaultBars).val)

\* the state __init__ leaves: empty result tables, and the tables and the
\* axes of its reset_tables()
Init ==
  /\ tb_nodes = ConstructedNodes
  /\ tb_bars = ConstructedBars
  /\ tb_res = << >>
  /\ tb_check = << >>
  /\ canvas = plot_structure(ConstructedNodes, ConstructedBars, NoForces).canvas
  /\ dialog = NoDialog
  /\ last = Request("reset_tables", ConstructedNodes, ConstructedBars, <<"plot_preview", "draw">>)
  /\ alive = TRUE
  /\ edits = 0

\* A session: the user makes new tables, types one of a few tables into
\* them cell by cell, changes a cell, previews and computes in any order
SessionTables ==
  {t \in TwoNodeTables : t.tn[1].id = <<"A">> /\ t.tn[1].s = Pinned} \cup EmptyTables

\* every cell edit on the way to one of tables, from the tables of any reset
EditsOnReset(tables) ==
  UNION {EditsTo(tables, n_nodes.val, n_bars.val)
         : n_nodes \in {p \in {ParseInt(StripOr(t, DefaultNodes)) : t \in CountTexts} : p.ok},
           n_bars \in {p \in {ParseInt(StripOr(t, DefaultBars)) : t \in CountTexts} : p.ok}}

TypingSession == Typing(EditsOnReset(SessionTables))

Next ==
  \/ Calculate
  \/ PlotPreview
  \/ \E inp_nodes \in CountTexts, inp_bars \in CountTexts : ResetTables(inp_nodes, inp_bars)
  \/ TypeCell(TypingSession)
  \/ \E r \in {1}, col \in {1, 2}, text \in {<<"a">>, << >>} : EditBarCell(r, col, text)

Spec == Init /\ [][Next]_vars

\* Requests on every table of the model: the user types into the tables the
\* program starts with, and computes and previews at any cell
TypingInputs ==
  Typing(EditsTo(InitTables, ParseInt(DefaultNodes).val, ParseInt(DefaultBars).val))

NextInputs ==
  \/ Calculate
  \/ PlotPreview
  \/ TypeCell(TypingInputs)

SpecInputs == Init /\ [][NextInputs]_vars

\* A session in which the tables may also get a node off the drawable
\* range: A and B joined by a bar, and an isolated node C at x = inf
OffRangeTables ==
  {t \in PlaceTables :
     /\ t.tn[2].x = Num(4)
     /\ t.tn[3].x = Inf(1)
     /\ t.tb = <<BarRow(<<"1">>, <<"A">>, <<"B">>)>>}

TypingOffRange == Typing(EditsOnReset(SessionTables \cup OffRangeTables))

NextSession ==
  \/ Calculate
  \/ PlotPreview
  \/ \E inp_nodes \in CountTexts, inp_bars \in CountTexts : ResetTables(inp_nodes, inp_bars)
  \/ TypeCell(TypingOffRange)
  \/ \E r \in {1}, col \in {1, 2}, text \in {<<"a">>, << >>} : EditBarCell(r, col, text)

SpecSession == Init /\ [][NextSession]_vars

\* ------------------------------------------------------------------------
\* The last request, as the properties below read it
\* ------------------------------------------------------------------------
\* the structure the last request read from the tables
Req == get_input_data(last.tn, last.tb)

Computed == last.op = "calculate"
Previewed == last.op = "plot_preview"
Step(name) == \E i \in 1..Len(last.steps) : last.steps[i] = name

\* the last request was a calculate that displayed a solution
Solved == Computed /\ Step("display_results")

\* the system and the solution of the structure the last request read
Sys == Only({Assemble(gd.nodes, gd.bars) : gd \in {Req}})
Sol == Only({lstsq(sys.A, sys.F_vec, sys.n_equations, sys.n_unknowns).X : sys \in {Sys}})

\* the key a text resolves to when case and surrounding blanks are ignored
Canon(t) == upper(strip(t))

\* position of a key in the ascending order of the keys
IndexOf(keys, k) == Cardinality({q \in keys : TextLt(q, k)})

\* |v| is below the tolerance of a numerical check
Near0(v) == IsFin(v) /\ FLt(FAbs(v), Fin(1, 1000))

\* the distance between the two ends of bar b is below 1e-6: both
\* components of the vector between them are, and in units of 1e-6 the sum
\* of their squares is below 1
Coincide(nodes, b) ==
  LET dx == FSub(nodes[b.v].x, nodes[b.u].x)
      dy == FSub(nodes[b.v].y, nodes[b.u].y)
  IN  /\ FLt(FAbs(dx), LenEps)
      /\ FLt(FAbs(dy), LenEps)
      /\ FLt(FAdd(FSq(FMul(dx, Num(LenEpsDen))), FSq(FMul(dy, Num(LenEpsDen)))), Num(1))

\* ------------------------------------------------------------------------
\* Properties
\* ------------------------------------------------------------------------

\* C1: a node row's id and a bar's start or end that differ only in letter
\* case or surrounding blanks resolve to one entry of the node map: the bar
\* end's key carries the attributes of the row, and no second node with
\* that name exists.
C1_KeysCanonical ==
  (Computed \/ Previewed) =>
    \A r \in 1..Len(last.tn), j \in 1..Len(last.tb) :
      \A ref \in {last.tb[j].u, last.tb[j].v} :
        ( /\ Canon(last.tb[j].u) # << >>
          /\ Canon(last.tb[j].v) # << >>
          /\ Canon(ref) = Canon(last.tn[r].id)
          /\ \A r2 \in 1..Len(last.tn) :
               Canon(last.tn[r2].id) = Canon(ref) => r2 = r )
        => /\ ~Req.none
           /\ Canon(ref) \in DOMAIN Req.nodes
           /\ Req.nodes[Canon(ref)] = NodeOf(last.tn[r])
           /\ Cardinality({k \in DOMAIN Req.nodes : Canon(k) = Canon(ref)}) = 1

\* C2: whenever calculate displays a solution x, every node is in
\* equilibrium: (A x)[2i] + fx_i and (A x)[2i+1] + fy_i are zero within
\* tolerance, for the x shown in the results table.
C2_EquilibriumClosure ==
  Solved =>
    LET Ax == MatVec(Sys.A, Sol, Sys.n_equations, Sys.n_unknowns)
    IN  /\ tb_res = display_results(Slice(Sol, 0, Sys.n_bars), Req.bars,
                                    Slice(Sol, Sys.n_bars, Sys.n_unknowns),
                                    Sys.reaction_map)
        /\ \A nid \in DOMAIN Req.nodes :
             LET i == IndexOf(DOMAIN Req.nodes, nid)
             IN  /\ Near0(FAdd(Ax[2 * i], Req.nodes[nid].fx))
                 /\ Near0(FAdd(Ax[2 * i + 1], Req.nodes[nid].fy))

\* C3: when some bar of the bar list has ends less than 1e-6 apart, calculate
\* shows the error dialog naming such a bar and returns without calling
\* lstsq and without updating the results table, the verification table or
\* the plot.
C3_DegenerateBarRejected ==
  ( /\ Computed
    /\ ~Req.none
    /\ \E j \in 1..Len(Req.bars) : Coincide(Req.nodes, Req.bars[j]) )
  => /\ dialog.kind = "critical"
     /\ dialog.title = "Loi"
     /\ \E j \in 1..Len(Req.bars) :
          /\ Coincide(Req.nodes, Req.bars[j])
          /\ dialog.text = <<"Thanh", Req.bars[j].id, "co chieu dai ~ 0!">>
     /\ ~Step("lstsq")
     /\ ~Step("display_results")
     /\ ~Step("display_check_matrix")
     /\ ~Step("plot_structure")

\* C4: when the tables hold no node, a preview shows no error and an explicit
\* calculate shows an error dialog.
C4_EmptyStructureReported ==
  Req.none =>
    /\ Previewed => (dialog = NoDialog /\ alive)
    /\ Computed => dialog.kind \in {"critical", "warning"}

\* the structure of the last request is one horizontal bar between a Pinned
\* node p and a node q on a Roller with surface angle 0
SingleBar(p, q) ==
  /\ ~Req.none
  /\ DOMAIN Req.nodes = {p, q}
  /\ p # q
  /\ Len(Req.bars) = 1
  /\ {Req.bars[1].u, Req.bars[1].v} = {p, q}
  /\ Req.nodes[p].s = Pinned
  /\ Req.nodes[q].s = Roller
  /\ Req.nodes[q].s_angle = Zero
  /\ IsFin(Req.nodes[p].x) /\ IsFin(Req.nodes[q].x)
  /\ FEq(Req.nodes[p].y, Req.nodes[q].y)
  /\ ~FEq(Req.nodes[p].x, Req.nodes[q].x)

\* the x load on q times the offset of q from p: positive when the load pulls
\* q away from p
Pull(p, q) == FMul(Req.nodes[q].fx, FSub(Req.nodes[q].x, Req.nodes[p].x))

\* C5: in a solved single horizontal bar, Pinned at one end and on a Roller at
\* 0 degrees at the other, a load that pulls the roller end away from the pin
\* gives a strictly positive bar force and a load that pushes it towards the
\* pin a strictly negative one, whichever end the bar starts from.
C5_SignConvention ==
  Solved =>
    \A p \in DOMAIN Req.nodes, q \in DOMAIN Req.nodes :
      SingleBar(p, q) =>
        /\ FLt(Zero, Pull(p, q)) =>
             (FLt(Zero, Sol[0]) /\ tb_res[1][3] # <<"st", "NEN (-)">>)
        /\ FLt(Pull(p, q), Zero) =>
             (FLt(Sol[0], Zero) /\ tb_res[1][3] # <<"st", "KEO (+)">>)

\* a stretched bar that starts at the roller end is shown in tension
C5_Witness ==
  /\ Solved
  /\ \E p \in DOMAIN Req.nodes, q \in DOMAIN Req.nodes :
       /\ SingleBar(p, q)
       /\ FLt(Zero, Pull(p, q))
       /\ Req.bars[1].u = q
       /\ FLt(Req.nodes[q].x, Req.nodes[p].x)
  /\ tb_res[1][3] = <<"st", "KEO (+)">>

\* the entries of reaction_map that belong to node index i
ComponentsAt(i) == SelectSeq(Sys.reaction_map, LAMBDA t : t[1] = i)

\* the rows of the verification table about a support of node nid
SupportRows(nid) ==
  {i \in 1..Len(tb_check) : tb_check[i][1][1] = "Goi" /\ tb_check[i][2] = nid}

\* C6: for every node of a structure calculate works on, reaction_map holds
\* two components at 0 and 90 degrees with distinct labels when the node is
\* Pinned, one component at surface angle + 90 when it is on a Roller, none
\* without a support; a Roller at surface angle 0 reacts along 90 degrees and
\* its displayed Rx is zero.
C6_SupportReactions ==
  (Computed /\ ~Req.none /\ Req.bars # << >>) =>
    \A nid \in DOMAIN Req.nodes :
      LET comps == ComponentsAt(IndexOf(DOMAIN Req.nodes, nid))
          nd == Req.nodes[nid]
      IN  /\ nd.s = Pinned =>
               /\ Len(comps) = 2
               /\ comps[1][4] = Zero
               /\ comps[2][4] = Num(90)
               /\ comps[1][3] # comps[2][3]
          /\ nd.s = Roller =>
               /\ Len(comps) = 1
               /\ comps[1][4] = FAdd(nd.s_angle, Num(90))
               /\ nd.s_angle = Zero => comps[1][4] = Num(90)
          /\ nd.s = NoSupport => Len(comps) = 0
          /\ Solved =>
               /\ Cardinality(SupportRows(nid)) = Len(comps)
               /\ (nd.s = Roller /\ nd.s_angle = Zero) =>
                    \E i \in 1..Len(tb_res) :
                      /\ tb_res[i][1] = <<"P.Luc", <<"R_", nid>>, "(Tong)">>
                      /\ tb_res[i][3][2] = 0

\* a solved structure with a Pinned node and a loaded Roller at angle 0 whose
\* reaction is not zero
C6_Witness ==
  /\ Solved
  /\ \E nid \in DOMAIN Req.nodes : Req.nodes[nid].s = Pinned
  /\ \E nid \in DOMAIN Req.nodes :
       /\ Req.nodes[nid].s = Roller
       /\ Req.nodes[nid].s_angle = Zero
       /\ \E i \in 1..Len(tb_res) :
            /\ tb_res[i][1] = <<"P.Luc", <<"R_", nid>>, "(Tong)">>
            /\ tb_res[i][2] # 0
            /\ tb_res[i][3][2] = 0

\* a bar row with an id, a start and an end
Complete(row) == row.id # << >> /\ Canon(row.u) # << >> /\ Canon(row.v) # << >>

\* C7: a bar row without id, start or end is dropped and nothing else is
\* affected: the bar list is the complete rows in table order, and the nodes
\* are the named node rows and the ends of the complete rows.
C7_IncompleteBarRowsDropped ==
  (Computed \/ Previewed) =>
    LET kept == SelectSeq(last.tb, Complete)
        named == {strip(last.tn[r].id) : r \in 1..Len(last.tn)} \ {<< >>}
        ends == {Canon(kept[j].u) : j \in 1..Len(kept)}
                \cup {Canon(kept[j].v) : j \in 1..Len(kept)}
    IN  (named \cup ends # {}) =>
          /\ ~Req.none
          /\ Len(Req.bars) = Len(kept)
          /\ \A j \in 1..Len(kept) :
               Req.bars[j] = [id |-> kept[j].id, u |-> Canon(kept[j].u),
                              v |-> Canon(kept[j].v)]
          /\ DOMAIN Req.nodes = named \cup ends

\* the node a reaction_map entry belongs to, read from its label
LabelNode(t) == t[3][2]

\* C8: a displayed solution has one entry per bar and per reaction component;
\* row j of the results table is the j-th bar of the bar table with the
\* magnitude of x[j], row |bars|+k is the k-th reaction component with the
\* magnitude of x[|bars|+k]; the components follow the nodes in ascending key
\* order, a Pinned node's 0 degree component before its 90 degree one.
C8_ResultOrdering ==
  Solved =>
    LET nb == Len(Req.bars)
        rm == Sys.reaction_map
        nr == Len(rm)
        rows == SelectSeq(last.tb, LAMBDA row : Canon(row.u) # << >> /\ Canon(row.v) # << >>)
        x == Sol
    IN  /\ DOMAIN x = 0..(nb + nr - 1)
        /\ Len(tb_res) = nb + nr
        /\ Len(rows) = nb
        /\ \A j \in 1..nb :
             /\ tb_res[j][1] = <<"Thanh", rows[j].id>>
             /\ tb_res[j][2] = Fmt(FAbs(x[j - 1]), 3)
             /\ tb_res[j][3] = <<"st", ForceState(x[j - 1])>>
        /\ \A k \in 1..nr :
             /\ tb_res[nb + k][1] = <<"P.Luc", rm[k][3], "(Tong)">>
             /\ tb_res[nb + k][2] = Fmt(FAbs(x[nb + k - 1]), 3)
             /\ rm[k][1] = IndexOf(DOMAIN Req.nodes, LabelNode(rm[k]))
        /\ \A k \in 1..nr, k2 \in 1..nr :
             k < k2 =>
               \/ TextLt(LabelNode(rm[k]), LabelNode(rm[k2]))
               \/ /\ LabelNode(rm[k]) = LabelNode(rm[k2])
                  /\ rm[k][4] = Zero
                  /\ rm[k2][4] = Num(90)

\* a solved triangle whose node rows are not in key order, with three bars of
\* different force and three reaction components
C8_Witness ==
  /\ Solved
  /\ Len(Req.bars) = 3
  /\ Len(Sys.reaction_map) = 3
  /\ TextLt(strip(last.tn[2].id), strip(last.tn[1].id))
  /\ tb_res[1][2] # tb_res[2][2]
  /\ tb_res[2][2] # tb_res[3][2]
  /\ tb_res[4][2] # tb_res[5][2]

\* C9: when lstsq raises, calculate shows the failure dialog and displays
\* nothing; and whenever calculate shows the failure dialog, the request has
\* updated neither the results table, nor the verification table, nor the
\* plot.
C9_FailureShowsNoPartialResult ==
  /\ ( Computed /\ Step("lstsq")
       /\ HasNonFinite(Sys.A, Sys.n_equations, Sys.n_unknowns) )
     => (dialog.kind = "critical" /\ dialog.title = "Loi Toan Hoc")
  /\ ( Computed /\ dialog.kind = "critical" /\ dialog.title = "Loi Toan Hoc" )
     => /\ ~Step("display_results")
        /\ ~Step("display_check_matrix")
        /\ ~Step("plot_structure")

\* the keys of the node rows of the last request, and the last row of a key
RowKeys == {strip(last.tn[r].id) : r \in 1..Len(last.tn)} \ {<< >>}
LastRowOf(k) ==
  CHOOSE r \in 1..Len(last.tn) :
    /\ strip(last.tn[r].id) = k
    /\ \A r2 \in 1..Len(last.tn) : strip(last.tn[r2].id) = k => r2 <= r

\* (c, s) is the unit vector along (dx, dy)
UnitVector(c, s, dx, dy) ==
  /\ FAdd(FSq(c), FSq(s)) = Num(1)
  /\ FMul(c, dy) = FMul(s, dx)
  /\ ~FLt(FMul(c, dx), Zero)
  /\ ~FLt(FMul(s, dy), Zero)

\* C10: for a structure that passed the bar-length check, A is
\* 2|nodes| x (|bars| + |reactions|) and F has 2|nodes| entries, node i being
\* the i-th key in ascending order; F[2i] = -fx_i, F[2i+1] = -fy_i; column j
\* holds the direction cosines (c, s) of bar j in the rows of its start node,
\* (-c, -s) in the rows of its end node and zero elsewhere; column |bars|+k
\* holds cos and sin of the angle of reaction k in the rows of its node and
\* zero elsewhere.
C10_SystemAssembly ==
  (Computed /\ Step("lstsq")) =>
    LET keys == DOMAIN Req.nodes
        n == Cardinality(keys)
        nb == Len(Req.bars)
        rm == Sys.reaction_map
        nr == Len(rm)
        A == Sys.A
        F == Sys.F_vec
    IN  /\ DOMAIN A = 0..(2 * n - 1)
        /\ \A r \in DOMAIN A : DOMAIN A[r] = 0..(nb + nr - 1)
        /\ DOMAIN F = 0..(2 * n - 1)
        /\ \A nid \in keys :
             LET i == IndexOf(keys, nid)
             IN  /\ F[2 * i] = Float(FNeg(Req.nodes[nid].fx))
                 /\ F[2 * i + 1] = Float(FNeg(Req.nodes[nid].fy))
                 /\ nid \notin RowKeys => (F[2 * i] = Zero /\ F[2 * i + 1] = Zero)
        /\ \A j \in 1..nb :
             LET b == Req.bars[j]
                 iu == IndexOf(keys, b.u)
                 iv == IndexOf(keys, b.v)
                 c == A[2 * iu][j - 1]
                 s == A[2 * iu + 1][j - 1]
                 dx == FSub(Req.nodes[b.v].x, Req.nodes[b.u].x)
                 dy == FSub(Req.nodes[b.v].y, Req.nodes[b.u].y)
             IN  /\ iu # iv
                 /\ A[2 * iv][j - 1] = FNeg(c)
                 /\ A[2 * iv + 1][j - 1] = FNeg(s)
                 /\ \A r \in DOMAIN A :
                      r \notin {2 * iu, 2 * iu + 1, 2 * iv, 2 * iv + 1} => A[r][j - 1] = Zero
                 /\ (IsFin(dx) /\ IsFin(dy)) => UnitVector(c, s, dx, dy)
        /\ \A k \in 1..nr :
             LET i == rm[k][1]
             IN  /\ A[2 * i][nb + k - 1] = CosDeg(rm[k][4])
                 /\ A[2 * i + 1][nb + k - 1] = SinDeg(rm[k][4])
                 /\ \A r \in DOMAIN A :
                      r \notin {2 * i, 2 * i + 1} => A[r][nb + k - 1] = Zero
        /\ Solved => Len(tb_check) = 2 * nb + nr

\* a structure with an inclined bar, a loaded node and both kinds of support
\* passed the bar-length check and was solved
C10_Witness ==
  /\ Solved
  /\ Cardinality(DOMAIN Req.nodes) = 3
  /\ \E j \in 1..Len(Req.bars) :
       /\ Req.nodes[Req.bars[j].u].x # Req.nodes[Req.bars[j].v].x
       /\ Req.nodes[Req.bars[j].u].y # Req.nodes[Req.bars[j].v].y
  /\ \E nid \in DOMAIN Req.nodes : Req.nodes[nid].fx # Zero /\ Req.nodes[nid].fy # Zero
  /\ \E nid \in DOMAIN Req.nodes : Req.nodes[nid].s = Pinned
  /\ \E nid \in DOMAIN Req.nodes :
       Req.nodes[nid].s = Roller /\ Req.nodes[nid].s_angle = Num(90)
  /\ Len(tb_check) = 9

\* C11: whenever get_input_data returns a structure, both ends of every bar
\* of the bar list are keys of the node map; a bar end that is the key of no
\* node row is a node at (0,0) with zero load and no support; and a key of a
\* node row keeps the attributes of its row.
C11_EndpointClosure ==
  ((Computed \/ Previewed) /\ ~Req.none) =>
    /\ \A j \in 1..Len(Req.bars) :
         \A k \in {Req.bars[j].u, Req.bars[j].v} :
           /\ k \in DOMAIN Req.nodes
           /\ k \notin RowKeys =>
                /\ Req.nodes[k].x = IntZero /\ Req.nodes[k].y = IntZero
                /\ Req.nodes[k].fx = IntZero /\ Req.nodes[k].fy = IntZero
                /\ Req.nodes[k].s = NoSupport
    /\ \A k \in RowKeys :
         /\ k \in DOMAIN Req.nodes
         /\ Req.nodes[k] = NodeOf(last.tn[LastRowOf(k)])

\* a bar joins a node row that carries a position, a load and a support to
\* a key that no node row has
C11_Witness ==
  /\ Computed
  /\ ~Req.none
  /\ \E j \in 1..Len(Req.bars) :
       /\ Req.bars[j].u \in RowKeys
       /\ Req.nodes[Req.bars[j].u].x # Zero
       /\ Req.nodes[Req.bars[j].u].fx # Zero
       /\ Req.nodes[Req.bars[j].u].s # NoSupport
       /\ Req.bars[j].v \notin RowKeys
       /\ Req.bars[j].v \in DOMAIN Req.nodes

\* C12: the results table and the verification table are written
\* only by a compute that succeeds, so that after every compute that returns
\* early and after every preview they are exactly as the last successful
\* compute left them.
C12_TablesAsLastSuccessLeft ==
  [][ (tb_res' # tb_res \/ tb_check' # tb_check)
        => (last'.op = "calculate" /\ dialog'.kind = "information") ]_vars

====
